---- MODULE Spec2Model ----
(***************************************************************************)
(* Model of grants_tagger_light, mainly of its augmentation pipeline:      *)
(*   - the driver `augment` and its helper `_generate` (augment.py),       *)
(*   - the scheduler AugmentOpenAI.generate / _make_requests and the       *)
(*     completion handler _process_response (augment_openai.py).           *)
(* Python dicts are sequences of <<key, value>> pairs in insertion order.  *)
(* A Python value whose type matters (a label string or a count) is a      *)
(* record [type, v].                                                       *)
(*                                                                         *)
(* Specifications:                                                         *)
(*   Spec       a run of augment_cli / augment(data_path, save_to_path,    *)
(*              ...);                                                      *)
(*   SchedSpec  a run of AugmentOpenAI.generate(plan, dset, save_to_path,  *)
(*              model_key) on a plan of (label, deficit) entries, the      *)
(*              shape _make_requests reads (lines 79-80);                  *)
(*   MergeSpec  _count_elements_in_sublist and _merge_dicts applied to the *)
(*              shards of a corpus;                                        *)
(*   DlSpec     a run of download_epmc(download_path, year), whose code is *)
(*              not in src/: it is modelled from its tests.                *)
(* Spec and SchedSpec are separate: the call of generate in _generate      *)
(* (augment.py:46) raises TypeError: it passes neither save_to_path nor    *)
(* model_key and passes the unknown keyword few_shot_examples.             *)
(*                                                                         *)
(* The client (OpenAIMultiClient, a third-party package) is the            *)
(* environment: it queues the requests in order, has ClientConcurrency     *)
(* workers that take them, and calls the callback once per request with    *)
(* the response or with failed set. What it does with an exception that    *)
(* leaves the callback is not modelled: the call is left "handler_raised". *)
(***************************************************************************)
EXTENDS Integers, Sequences, FiniteSets, TLC

\* ---------------------------------------------------------------- bounds
MaxRecords == 3
MaxMinExamples == 3
MaxConcurrentCalls == 2
MaxPlan == 2
MaxRequired == 3
MaxSeeds == 2
MaxChoices == 2
MaxCalls == 2
MaxPreexisting == 1

\* ------------------------------------------------------ program constants
DefaultMinExamples == 15
DefaultConcurrentCalls == 5
ClientConcurrency == 10
Months == 12

\* ----------------------------------------------------------------- values
StrVal(s) == [type |-> "str", v |-> s]
IntVal(n) == [type |-> "int", v |-> n]
None == [type |-> "NoneType"]

Min(a, b) == IF a <= b THEN a ELSE b

\* a file that is written in one piece: whether it exists, and what it holds
Absent == [exists |-> FALSE, lines |-> <<>>]
File(lines) == [exists |-> TRUE, lines |-> lines]

\* mutant: the file is opened with mode 'w', which empties it
open_w(records) == <<>>

\* open(save_to_path, 'a'): the records of the file after the open; the file is
\* created if absent and what it holds stays
open_a(records) == records

\* the value of `datetime.date.year`: the attribute descriptor of the class
DateYearAttribute == [type |-> "getset_descriptor"]

\* json.dumps accepts str, int, list, dict, None; anything else is a TypeError
IsJsonSerializable(v) == v.type \in {"str", "int", "NoneType"}

\* ------------------------------------------------------------------ corpus
R1 == [meshMajor |-> <<"a">>, year |-> "2020", abstractText |-> "A1"]
R2 == [meshMajor |-> <<"a", "b">>, year |-> "2021", abstractText |-> "A2"]
R3 == [meshMajor |-> <<"b", "c">>, year |-> "2020", abstractText |-> "A3"]
R4 == [meshMajor |-> <<"c", "c">>, year |-> "2021", abstractText |-> "A4"]
RecordPool == {R1, R2, R3, R4}

SeqsUpTo(S, n) == UNION {[1..k -> S] : k \in 1..n}

Corpora == SeqsUpTo(RecordPool, MaxRecords)

\* the corpus of the end-to-end scenario: 20 records, 3 of them "Malaria"
Malaria == [k \in 1..20 |->
              IF k <= 3
              THEN [meshMajor |-> <<"Malaria">>, year |-> "2020",
                    abstractText |-> <<"M", k>>]
              ELSE [meshMajor |-> <<"Other">>, year |-> "2020",
                    abstractText |-> <<"O", k>>]]

\* ------------------------------------------------------------- dict helpers
Keys(d) == {d[k][1] : k \in DOMAIN d}
Get(d, key) == LET k == CHOOSE k \in DOMAIN d : d[k][1] = key IN d[k][2]
Put(d, key, value) ==
    IF key \in Keys(d)
    THEN [k \in DOMAIN d |-> IF d[k][1] = key THEN <<key, value>> ELSE d[k]]
    ELSE Append(d, <<key, value>>)

RECURSIVE _count_elements_in_sublist_from(_, _)
_count_elements_in_sublist_from(sublist, element_count) ==
    IF sublist = <<>> THEN element_count
    ELSE LET element == Head(sublist) IN
         _count_elements_in_sublist_from(Tail(sublist),
            IF element \in Keys(element_count)
            THEN Put(element_count, element, Get(element_count, element) + 1)
            ELSE Put(element_count, element, 1))

_count_elements_in_sublist(sublist) ==
    _count_elements_in_sublist_from(sublist, <<>>)

\* mutant: the value of a key already merged is replaced, not added to
RECURSIVE MergeOneOverwrite(_, _)
MergeOneOverwrite(merged_dict, d) ==
    IF d = <<>> THEN merged_dict
    ELSE MergeOneOverwrite(Put(merged_dict, Head(d)[1], Head(d)[2]), Tail(d))

RECURSIVE MergeOne(_, _)
MergeOne(merged_dict, d) ==
    IF d = <<>> THEN merged_dict
    ELSE LET key == Head(d)[1]
             value == Head(d)[2] IN
         MergeOne(IF key \in Keys(merged_dict)
                  THEN Put(merged_dict, key, Get(merged_dict, key) + value)
                  ELSE Put(merged_dict, key, value),
                  Tail(d))

RECURSIVE MergeFrom(_, _)
MergeFrom(dict_list, merged_dict) ==
    IF dict_list = <<>> THEN merged_dict
    ELSE MergeFrom(Tail(dict_list), MergeOne(merged_dict, Head(dict_list)))

_merge_dicts(dict_list) == MergeFrom(dict_list, <<>>)

\* sorted(items, key=lambda x: x[1], reverse=True): stable, descending
RECURSIVE InsertDesc(_, _)
InsertDesc(sorted, item) ==
    IF sorted = <<>> THEN <<item>>
    ELSE IF Head(sorted)[2] >= item[2]
         THEN <<Head(sorted)>> \o InsertDesc(Tail(sorted), item)
         ELSE <<item>> \o sorted

RECURSIVE SortedDesc(_, _)
SortedDesc(items, acc) ==
    IF items = <<>> THEN acc
    ELSE SortedDesc(Tail(items), InsertDesc(acc, Head(items)))

sorted_merged_element_counts(d) == SortedDesc(d, <<>>)

\* mutant: the year filters are not applied before the count
FilterYearsLater(ds, train, test) == ds

\* lines 88-91: keep the inclusion years, drop the exclusion years
FilterYears(ds, train, test) ==
    LET InTrain(x) == train = {} \/ x.year \in train
        NotInTest(x) == test = {} \/ x.year \notin test
    IN SelectSeq(SelectSeq(ds, InTrain), NotInTest)

\* line 95: pool.map(_count_elements_in_sublist, dset['meshMajor'])
ElementCountsList(ds) == [k \in DOMAIN ds |-> _count_elements_in_sublist(ds[k].meshMajor)]

\* lines 95-101
LabelCounts(ds) ==
    sorted_merged_element_counts(_merge_dicts(ElementCountsList(ds)))

\* lines 106-107
tags_to_augment_of(counts, min) ==
    LET Below(kv) == kv[2] < min
        sel == SelectSeq(counts, Below)
    IN [k \in DOMAIN sel |-> sel[k][1]]

\* line 115
FilterTags(ds, tags) ==
    LET HasTag(x) == \E j \in DOMAIN x.meshMajor, k \in DOMAIN tags :
                        x.meshMajor[j] = tags[k]
    IN SelectSeq(ds, HasTag)

\* ------------------------------------------------------------------- state
VARIABLES
    cfg,        \* arguments of the run: model_key, min_examples, concurrent_calls, years, corpus file
    pc,         \* position of the driver `augment`
    dset,       \* the dataset (driver: as loaded and filtered; scheduler: the argument of generate)
    counts,     \* sorted_merged_element_counts_dict
    tags_to_augment,
    ti,         \* index of the tag the loop of lines 126-132 visits next
    collect_concurrent_calls,
    handed,     \* the plans passed to AugmentOpenAI.generate by _generate, in order
    countFile,  \* the file <save_to_path>.count: the entries of the dict written to it
    fileExists, \* whether save_to_path exists
    outfile,    \* the records of save_to_path (flushed lines)
    plan,       \* the argument collect_concurrent_calls of generate
    mr,         \* position and locals of _make_requests
    calls,      \* the outbound calls handed to the client, in request order
    result,     \* the argument of the latest _process_response invocation
    okParsed,   \* number of generations parsed into {title, abstract} so far
    element_counts_list, \* the per-sublist counts handed to _merge_dicts
    dl          \* download_epmc: its position and the month files below <path>/<year>

vars == <<cfg, pc, dset, counts, tags_to_augment, ti, collect_concurrent_calls,
          handed, countFile, fileExists, outfile, plan, mr, calls, result, okParsed,
          element_counts_list, dl>>

driverVars == <<pc, counts, tags_to_augment, ti, collect_concurrent_calls,
                handed, countFile, element_counts_list>>
schedVars == <<plan, mr, calls, result, okParsed>>
epmcVars == <<dl>>

\* lines 75-77: the names that start with gpt-3.5-turbo, text-davinci or gpt-4
SupportedModel(model_key) ==
    model_key \in {"gpt-3.5-turbo", "gpt-3.5-turbo-16k", "text-davinci-003", "gpt-4"}

MrIdle == [pc |-> "idle", num |-> 1, i |-> 1, tmp_dset |-> <<>>,
           required_examples |-> 0, existing_examples |-> 0, n_per_example |-> 0]

OldRecord == [journal |-> StrVal("old"), featured_tag |-> StrVal("a"),
              meshMajor |-> <<"a">>]

\* a path is the sequence of its characters
Jsonl == <<"j", "s", "o", "n", "l">>
DataPaths == {<<"m", ".">> \o Jsonl, <<"m", ".", "j", "s", "o", "n">>}

\* str.endswith
EndsWith(s, suffix) ==
    /\ Len(s) >= Len(suffix)
    /\ SubSeq(s, Len(s) - Len(suffix) + 1, Len(s)) = suffix

\* the arguments of a run and its environment: api_key tells whether
\* OPENAI_API_KEY is set. The runs with a missing key or another data path are
\* taken on the corpora of one record.
Configs ==
    {c \in [model_key : {"gpt-3.5-turbo", "llama"},
            min_examples : 1..MaxMinExamples,
            concurrent_calls : 1..MaxConcurrentCalls,
            train_years : {{}, {"2020"}},
            test_years : {{}, {"2021"}},
            data : Corpora,
            api_key : BOOLEAN,
            data_path : DataPaths] :
        (~c.api_key \/ ~EndsWith(c.data_path, Jsonl)) => Len(c.data) = 1}
    \cup
    {[model_key |-> "gpt-3.5-turbo", min_examples |-> DefaultMinExamples,
      concurrent_calls |-> DefaultConcurrentCalls, train_years |-> {},
      test_years |-> {}, data |-> Malaria, api_key |-> TRUE,
      data_path |-> <<"m", ".">> \o Jsonl]}

\* ---------------------------------------------------------------- the driver
Init ==
    /\ cfg \in Configs
    /\ pc = "cli"
    /\ dset = <<>>
    /\ counts = <<>>
    /\ tags_to_augment = <<>>
    /\ ti = 1
    /\ collect_concurrent_calls = <<>>
    /\ handed = <<>>
    /\ countFile = Absent
    /\ fileExists \in BOOLEAN
    /\ outfile = IF fileExists THEN <<OldRecord>> ELSE <<>>
    /\ plan = <<>>
    /\ mr = MrIdle
    /\ calls = <<>>
    /\ result = None
    /\ okParsed = 0
    /\ element_counts_list = <<>>
    /\ dl = None

\* augment_cli, lines 180-198: exit(-1) unless data_path ends with jsonl, else augment
AugmentCli ==
    /\ pc = "cli"
    /\ pc' = IF EndsWith(cfg.data_path, Jsonl) THEN "start" ELSE "exit"
    /\ UNCHANGED <<cfg, element_counts_list, dset, counts, tags_to_augment, ti,
                   collect_concurrent_calls, handed, countFile, fileExists, outfile>>
    /\ UNCHANGED schedVars
    /\ UNCHANGED epmcVars

\* lines 75-80 with AugmentOpenAI.__init__, lines 17-23: NotImplementedError
\* for a model that is not supported; a missing OPENAI_API_KEY is logged
\* (logger.error, lines 18-19) and the constructor goes on
ConstructEngine ==
    /\ pc = "start"
    /\ pc' = IF SupportedModel(cfg.model_key) THEN "load" ELSE "error"
    /\ UNCHANGED <<cfg, element_counts_list, dset, counts, tags_to_augment, ti, collect_concurrent_calls,
                   handed, countFile, fileExists, outfile>>
    /\ UNCHANGED schedVars
    /\ UNCHANGED epmcVars

\* lines 83-91
LoadDataset ==
    /\ pc = "load"
    /\ dset' = FilterYears(cfg.data, cfg.train_years, cfg.test_years)
    /\ pc' = "count"
    /\ UNCHANGED <<cfg, element_counts_list, counts, tags_to_augment, ti, collect_concurrent_calls,
                   handed, countFile, fileExists, outfile>>
    /\ UNCHANGED schedVars
    /\ UNCHANGED epmcVars

\* mutant: the report of lines 103-104 is left out
AfterCountSelect == "select"

\* lines 101-104: what follows the count is the report
AfterCount == "report"

\* lines 93-101
CountLabels ==
    /\ pc = "count"
    /\ element_counts_list' = ElementCountsList(dset)
    /\ counts' = LabelCounts(dset)
    /\ pc' = AfterCount
    /\ UNCHANGED <<cfg, dset, tags_to_augment, ti, collect_concurrent_calls,
                   handed, countFile, fileExists, outfile>>
    /\ UNCHANGED schedVars
    /\ UNCHANGED epmcVars

\* lines 103-104
WriteCount ==
    /\ pc = "report"
    /\ countFile' = File(counts)
    /\ pc' = "select"
    /\ UNCHANGED <<cfg, element_counts_list, dset, counts, tags_to_augment, ti, collect_concurrent_calls,
                   handed, fileExists, outfile>>
    /\ UNCHANGED schedVars
    /\ UNCHANGED epmcVars

\* lines 106-125
SelectTags ==
    /\ pc = "select"
    /\ tags_to_augment' = tags_to_augment_of(counts, cfg.min_examples)
    /\ dset' = FilterTags(dset, tags_to_augment')
    /\ collect_concurrent_calls' = <<>>
    /\ ti' = 1
    /\ pc' = "loop"
    /\ UNCHANGED <<cfg, element_counts_list, counts, handed, countFile, fileExists, outfile>>
    /\ UNCHANGED schedVars
    /\ UNCHANGED epmcVars

\* line 132: the entry appended for tag t
PlanEntry(tag_counts, t, min) == <<IntVal(Get(tag_counts, t)), min - Get(tag_counts, t)>>

\* lines 127-128 with _generate, lines 41-59: the file is opened for append,
\* then generate is called without save_to_path and model_key and with the
\* unknown keyword few_shot_examples: the call raises TypeError before the
\* body of generate runs, and the exception leaves augment.
BatchFull ==
    /\ pc = "loop"
    /\ ti <= Len(tags_to_augment)
    /\ Len(collect_concurrent_calls) >= cfg.concurrent_calls
    /\ fileExists' = TRUE
    /\ outfile' = open_a(outfile)
    /\ handed' = Append(handed, collect_concurrent_calls)
    /\ pc' = "error"
    /\ UNCHANGED <<cfg, element_counts_list, dset, counts, tags_to_augment, ti,
                   collect_concurrent_calls, countFile>>
    /\ UNCHANGED schedVars
    /\ UNCHANGED epmcVars

\* lines 129-132
Collect ==
    /\ pc = "loop"
    /\ ti <= Len(tags_to_augment)
    /\ Len(collect_concurrent_calls) < cfg.concurrent_calls
    /\ LET t == tags_to_augment[ti] IN
       collect_concurrent_calls' =
          IF Get(counts, t) < cfg.min_examples
          THEN Append(collect_concurrent_calls, PlanEntry(counts, t, cfg.min_examples))
          ELSE collect_concurrent_calls
    /\ ti' = ti + 1
    /\ UNCHANGED <<cfg, element_counts_list, pc, dset, counts, tags_to_augment, handed, countFile,
                   fileExists, outfile>>
    /\ UNCHANGED schedVars
    /\ UNCHANGED epmcVars

\* the loop of line 126 is exhausted and augment returns
Return ==
    /\ pc = "loop"
    /\ ti > Len(tags_to_augment)
    /\ pc' = "done"
    /\ UNCHANGED <<cfg, element_counts_list, dset, counts, tags_to_augment, ti, collect_concurrent_calls,
                   handed, countFile, fileExists, outfile>>
    /\ UNCHANGED schedVars
    /\ UNCHANGED epmcVars

Next ==
    \/ AugmentCli
    \/ ConstructEngine
    \/ LoadDataset
    \/ CountLabels
    \/ WriteCount
    \/ SelectTags
    \/ BatchFull
    \/ Collect
    \/ Return

Spec == Init /\ [][Next]_vars

\* ------------------------------------------------------------ the scheduler
\* prompt_template, as the text pieces between and including the placeholders
prompt_template == <<"Write an abstract about ", "{TOPIC}", " in the style of ", "{ABSTRACT}">>

\* str.replace(old, new) on the pieces of the text
Replace(text, old, new) == [k \in DOMAIN text |-> IF text[k] = old THEN new ELSE text[k]]

\* lines 25-29
_create_message(abstract, tag) ==
    LET prompt == Replace(Replace(prompt_template, "{TOPIC}", tag), "{ABSTRACT}", abstract)
    IN <<[role |-> "user", content |-> prompt]>>

\* line 82: the indices of the records of ds that carry t
Carries(x, t) == t.type = "str" /\ \E j \in DOMAIN x.meshMajor : x.meshMajor[j] = t.v

tmp_dset_of(ds, t) ==
    LET idx == [k \in DOMAIN ds |-> k]
        Has(k) == Carries(ds[k], t)
    IN SelectSeq(idx, Has)

\* mutant: every seed of the label is used, whatever the deficit
existing_examples_all(required_examples, tmp_dset) == Len(tmp_dset)

\* line 88
existing_examples_of(required_examples, tmp_dset) == Min(required_examples, Len(tmp_dset))

\* mutant: floor division in place of math.ceil
n_per_example_floor(required_examples, existing_examples) ==
    required_examples \div existing_examples

\* mutant: one more than the floor, which is one too many when the division is exact
n_per_example_overshoot(required_examples, existing_examples) ==
    (required_examples \div existing_examples) + 1

\* line 90: math.ceil(required_examples / existing_examples), existing_examples > 0
n_per_example_of(required_examples, existing_examples) ==
    IF required_examples % existing_examples = 0
    THEN required_examples \div existing_examples
    ELSE (required_examples \div existing_examples) + 1

\* lines 96-103 (temperature, top_p and presence_penalty are passed through)
RequestData(model_key, n_per_example, abstract, t) ==
    [model |-> model_key, n |-> n_per_example, messages |-> _create_message(abstract, t.v)]

\* lines 105-113
RequestMetadata(t, tags, n, abstract, model_key) ==
    [featured_tag |-> t,
     tags |-> tags,
     required_examples |-> IntVal(n),
     existing_example |-> StrVal(abstract),
     year |-> DateYearAttribute,
     model_key |-> StrVal(model_key),
     save_to_path |-> "save_to_path"]

\* what a choice of a response holds
\*   no_message     a choice without 'message', or a message without 'content'
\*   undecodable    content that holds no JSON object
\*   missing_field  content that decodes to an object without 'abstract' or without 'title'
\*   well_formed    content that decodes to an object with both fields
ChoiceKinds == {"well_formed", "undecodable", "missing_field", "no_message"}

\* JsonParser.parse_json: the {title, abstract} record of the content, or an exception
parse_json(content) ==
    IF content = "well_formed"
    THEN [raised |-> FALSE, value |-> [title |-> "T", abstract |-> "A"]]
    ELSE [raised |-> TRUE, value |-> None]

\* lines 50-60: the dict handed to json.dumps
OutputRecord(metadata, a, tl, pmid) ==
    [journal |-> metadata.model_key,
     meshMajor |-> [type |-> "list", v |-> metadata.tags],
     year |-> metadata.year,
     abstractText |-> StrVal(a),
     pmid |-> StrVal(pmid),
     title |-> StrVal(tl),
     existing_example |-> metadata.existing_example,
     required_examples |-> metadata.required_examples,
     featured_tag |-> metadata.featured_tag]

\* json.dumps of a dict: the line, or TypeError on a value json cannot encode
JsonDumpsRaises(rec) ==
    \E f \in {"journal", "year", "abstractText", "pmid", "title", "existing_example",
              "required_examples", "featured_tag"} : ~IsJsonSerializable(rec[f])

\* mutant: no try/except around parse_json, the parse failure leaves the handler
RECURSIVE ProcessChoicesNoCatch(_, _, _, _)
ProcessChoicesNoCatch(choices, metadata, file, parsed) ==
    IF choices = <<>>
    THEN [status |-> "completed_ok", exc |-> "none", file |-> file, parsed |-> parsed]
    ELSE LET r == Head(choices) IN
         IF r = "no_message"
         THEN ProcessChoicesNoCatch(Tail(choices), metadata, file, parsed)
         ELSE LET json_response == parse_json(r) IN
              IF json_response.raised
              THEN [status |-> "handler_raised", exc |-> "ParseError",
                    file |-> file, parsed |-> parsed]
              ELSE LET rec == OutputRecord(metadata, json_response.value.abstract,
                                           json_response.value.title,
                                           <<"uuid", Len(file) + 1>>) IN
                   IF JsonDumpsRaises(rec)
                   THEN [status |-> "handler_raised", exc |-> "TypeError",
                         file |-> file, parsed |-> parsed + 1]
                   ELSE ProcessChoicesNoCatch(Tail(choices), metadata,
                                              Append(file, rec), parsed + 1)

\* lines 38-64: the loop over the choices; file is the content of save_to_path
RECURSIVE ProcessChoices(_, _, _, _)
ProcessChoices(choices, metadata, file, parsed) ==
    IF choices = <<>>
    THEN [status |-> "completed_ok", exc |-> "none", file |-> file, parsed |-> parsed]
    ELSE LET r == Head(choices) IN
         IF r = "no_message"
         THEN ProcessChoices(Tail(choices), metadata, file, parsed)
         ELSE LET json_response == parse_json(r) IN
              IF json_response.raised
              THEN ProcessChoices(Tail(choices), metadata, file, parsed)
              ELSE LET rec == OutputRecord(metadata, json_response.value.abstract,
                                           json_response.value.title,
                                           <<"uuid", Len(file) + 1>>) IN
                   IF JsonDumpsRaises(rec)
                   THEN [status |-> "handler_raised", exc |-> "TypeError",
                         file |-> file, parsed |-> parsed + 1]
                   ELSE ProcessChoices(Tail(choices), metadata,
                                       Append(file, rec), parsed + 1)

\* mutant: the failed flag is not looked at; the file is opened and
\* result.response['choices'] of a failed result (None) raises TypeError
_process_response_unchecked(res, file, parsed) ==
    IF res.failed
    THEN [status |-> "handler_raised", exc |-> "TypeError", file |-> file,
          parsed |-> parsed, opened |-> TRUE]
    ELSE LET out == ProcessChoices(res.response, res.metadata, file, parsed) IN
         [status |-> out.status, exc |-> out.exc, file |-> out.file,
          parsed |-> out.parsed, opened |-> TRUE]

\* mutant: a failed call is put back into the queue of the client
_process_response_requeue(res, file, parsed) ==
    IF res.failed
    THEN [status |-> "queued", exc |-> "none", file |-> file,
          parsed |-> parsed, opened |-> FALSE]
    ELSE LET out == ProcessChoices(res.response, res.metadata, file, parsed) IN
         [status |-> out.status, exc |-> out.exc, file |-> out.file,
          parsed |-> out.parsed, opened |-> TRUE]

\* lines 32-64: the completion handler; opened tells whether save_to_path was opened
_process_response(res, file, parsed) ==
    IF res.failed
    THEN [status |-> "completed_failed", exc |-> "none", file |-> file,
          parsed |-> parsed, opened |-> FALSE]
    ELSE LET out == ProcessChoices(res.response, res.metadata, open_a(file), parsed) IN
         [status |-> out.status, exc |-> out.exc, file |-> out.file,
          parsed |-> out.parsed, opened |-> TRUE]

PlanKeys == {StrVal("a"), StrVal("b"), IntVal(1)}
RECURSIVE TotalRequired(_)
TotalRequired(p) == IF p = <<>> THEN 0 ELSE Head(p)[2] + TotalRequired(Tail(p))

\* plans of (t, n) entries, one entry per key, of at most MaxRequired examples in all
Plans == {p \in SeqsUpTo(PlanKeys \X (1..MaxRequired), MaxPlan) :
            /\ \A j, k \in DOMAIN p : j # k => p[j][1] # p[k][1]
            /\ TotalRequired(p) <= MaxRequired}

\* the datasets generate is run on: the first k records of R1, R2, R1, R2, ...
SchedDsets == {[k \in 1..m |-> IF k % 2 = 1 THEN R1 ELSE R2] : m \in 1..MaxSeeds}

\* a plan and the dataset it is run on; the driver hands a batch over when it
\* holds concurrent_calls entries (line 127)
\* the number of outbound calls a plan produces on a dataset (lines 88, 92)
RECURSIVE CallsOf(_, _)
CallsOf(ds, p) ==
    IF p = <<>> THEN 0
    ELSE existing_examples_of(Head(p)[2], tmp_dset_of(ds, Head(p)[1])) + CallsOf(ds, Tail(p))

\* a plan and the dataset it is run on; the driver hands a batch over when it
\* holds concurrent_calls entries (line 127)
SchedInputs ==
    {[dset |-> d, plan |-> p, concurrent_calls |-> Len(p)] :
        <<d, p>> \in {in \in SchedDsets \X Plans : CallsOf(in[1], in[2]) <= MaxCalls}}
    \cup
    {[dset |-> Malaria, plan |-> << <<StrVal("Malaria"), DefaultMinExamples - 3>> >>,
      concurrent_calls |-> DefaultConcurrentCalls]}

SchedInit ==
    /\ \E in \in SchedInputs :
          /\ cfg = [model_key |-> "gpt-3.5-turbo", min_examples |-> DefaultMinExamples,
                    concurrent_calls |-> in.concurrent_calls, train_years |-> {},
                    test_years |-> {}, data |-> <<>>, api_key |-> TRUE,
                    data_path |-> <<"m", ".">> \o Jsonl]
          /\ dset = in.dset
          /\ plan = in.plan
    /\ pc = "generate"
    /\ counts = <<>>
    /\ tags_to_augment = <<>>
    /\ ti = 1
    /\ collect_concurrent_calls = <<>>
    /\ handed = <<>>
    /\ countFile = Absent
    /\ fileExists \in BOOLEAN
    /\ outfile = IF fileExists THEN <<OldRecord>> ELSE <<>>
    /\ mr = MrIdle
    /\ calls = <<>>
    /\ result = None
    /\ okParsed = 0
    /\ element_counts_list = <<>>
    /\ dl = None

InFlight == {c \in DOMAIN calls : calls[c].status = "in_flight"}
Queued == {c \in DOMAIN calls : calls[c].status = "queued"}
Terminal(c) == calls[c].status \in {"completed_ok", "completed_failed", "handler_raised"}

\* lines 117-127: generate starts _make_requests through run_request_function
Generate ==
    /\ pc = "generate"
    /\ mr.pc = "idle"
    /\ mr' = [mr EXCEPT !.pc = "outer", !.num = 1]
    /\ UNCHANGED <<cfg, dset, fileExists, outfile, plan, calls, result, okParsed>>
    /\ UNCHANGED driverVars
    /\ UNCHANGED epmcVars

\* lines 78-90: one iteration of the outer loop up to the replication factor.
\* No record carries a t that is not a label string, and with no seed line 90
\* divides by zero: the exception ends _make_requests.
MakeRequestsOuter ==
    /\ mr.pc = "outer"
    /\ IF mr.num > Len(plan)
       THEN mr' = [mr EXCEPT !.pc = "returned"]
       ELSE LET t == plan[mr.num][1]
                n == plan[mr.num][2]
                tmp_dset == tmp_dset_of(dset, t)
                existing_examples == existing_examples_of(n, tmp_dset)
            IN IF existing_examples = 0
               THEN mr' = [mr EXCEPT !.pc = "ZeroDivisionError", !.tmp_dset = tmp_dset,
                                     !.required_examples = n, !.existing_examples = 0]
               ELSE mr' = [mr EXCEPT !.pc = "inner", !.i = 1, !.tmp_dset = tmp_dset,
                                     !.required_examples = n,
                                     !.existing_examples = existing_examples,
                                     !.n_per_example =
                                         n_per_example_of(n, existing_examples)]
    /\ UNCHANGED <<cfg, dset, fileExists, outfile, plan, calls, result, okParsed>>
    /\ UNCHANGED driverVars
    /\ UNCHANGED epmcVars

\* lines 92-115: one iteration of the inner loop, one api.request
MakeRequestsInner ==
    /\ mr.pc = "inner"
    /\ IF mr.i > mr.existing_examples
       THEN /\ mr' = [mr EXCEPT !.pc = "outer", !.num = mr.num + 1]
            /\ calls' = calls
       ELSE LET t == plan[mr.num][1]
                n == plan[mr.num][2]
                seed == mr.tmp_dset[mr.i]
                abstract == dset[seed].abstractText
                tags == dset[seed].meshMajor
            IN /\ calls' = Append(calls,
                     [data |-> RequestData(cfg.model_key, mr.n_per_example, abstract, t),
                      metadata |-> RequestMetadata(t, tags, n, abstract, cfg.model_key),
                      status |-> "queued", req |-> mr.num, seed |-> seed])
               /\ mr' = [mr EXCEPT !.i = mr.i + 1]
    /\ UNCHANGED <<cfg, pc, dset, fileExists, outfile, plan, result, okParsed>>
    /\ UNCHANGED <<counts, tags_to_augment, ti, collect_concurrent_calls, handed, countFile,
                   element_counts_list>>
    /\ UNCHANGED epmcVars

\* the client takes the oldest queued call when one of its workers is free
Dispatch ==
    /\ Queued # {}
    /\ Cardinality(InFlight) < ClientConcurrency
    /\ LET c == CHOOSE c \in Queued : \A d \in Queued : c <= d IN
       calls' = [calls EXCEPT ![c].status = "in_flight"]
    /\ UNCHANGED <<cfg, dset, fileExists, outfile, plan, mr, result, okParsed>>
    /\ UNCHANGED driverVars
    /\ UNCHANGED epmcVars

Responses(n) == {<<>>} \cup SeqsUpTo(ChoiceKinds, Min(n, MaxChoices))

\* the backend answers call c and the client runs the callback _process_response
Complete(c, failed, response) ==
    /\ c \in InFlight
    /\ LET res == [call |-> c, failed |-> failed, response |-> response,
                   metadata |-> calls[c].metadata]
           out == _process_response(res, outfile, okParsed)
       IN /\ result' = res
          /\ calls' = [calls EXCEPT ![c].status = out.status]
          /\ outfile' = out.file
          /\ okParsed' = out.parsed
          /\ fileExists' = (fileExists \/ out.opened)
    /\ UNCHANGED <<cfg, dset, plan, mr>>
    /\ UNCHANGED driverVars
    /\ UNCHANGED epmcVars

CompleteFailed == \E c \in DOMAIN calls : Complete(c, TRUE, None)
CompleteAnswered ==
    \E c \in DOMAIN calls : \E response \in Responses(calls[c].data.n) :
        Complete(c, FALSE, response)

\* line 129: pull_all returns once _make_requests has returned and every call
\* has been answered
GenerateReturns ==
    /\ pc = "generate"
    /\ mr.pc = "returned"
    /\ \A c \in DOMAIN calls : Terminal(c)
    /\ pc' = "returned"
    /\ UNCHANGED <<cfg, element_counts_list, dset, counts, tags_to_augment, ti, collect_concurrent_calls,
                   handed, countFile, fileExists, outfile>>
    /\ UNCHANGED schedVars
    /\ UNCHANGED epmcVars

SchedNext ==
    \/ Generate
    \/ MakeRequestsOuter
    \/ MakeRequestsInner
    \/ Dispatch
    \/ CompleteFailed
    \/ CompleteAnswered
    \/ GenerateReturns

SchedSpec == SchedInit /\ [][SchedNext]_vars

\* ------------------------------------------------ the label count over shards
\* _count_elements_in_sublist and _merge_dicts as functions of their arguments:
\* the corpus is cut into shards, every shard is counted (line 95 does it with
\* one shard per record) and the counts are merged (line 99).
RECURSIVE Flatten(_)
Flatten(seqs) == IF seqs = <<>> THEN <<>> ELSE Head(seqs) \o Flatten(Tail(seqs))

\* the ways to put the records of ds into numbered shards; a shard may stay empty
Shardings(ds) == [DOMAIN ds -> 1..Len(ds)]

\* the labels of the records that f puts into shard s
ShardLabels(ds, f, s) ==
    LET idx == [k \in DOMAIN ds |-> k]
        InShard(k) == f[k] = s
        recs == SelectSeq(idx, InShard)
    IN Flatten([j \in DOMAIN recs |-> ds[recs[j]].meshMajor])

MergeInit ==
    /\ cfg = None
    /\ pc = "shard"
    /\ dset \in Corpora
    /\ counts = <<>>
    /\ tags_to_augment = <<>>
    /\ ti = 1
    /\ collect_concurrent_calls = <<>>
    /\ handed = <<>>
    /\ countFile = Absent
    /\ fileExists = FALSE
    /\ outfile = <<>>
    /\ plan = <<>>
    /\ mr = MrIdle
    /\ calls = <<>>
    /\ result = None
    /\ okParsed = 0
    /\ element_counts_list = <<>>
    /\ dl = None

\* line 95 on the shards of one sharding, in the order of their numbers
CountShards ==
    /\ pc = "shard"
    /\ \E f \in Shardings(dset) :
          element_counts_list' =
              [s \in 1..Len(dset) |-> _count_elements_in_sublist(ShardLabels(dset, f, s))]
    /\ pc' = "merge"
    /\ UNCHANGED <<cfg, dset, counts, tags_to_augment, ti, collect_concurrent_calls,
                   handed, countFile, fileExists, outfile>>
    /\ UNCHANGED schedVars
    /\ UNCHANGED epmcVars

\* line 99
MergeShards ==
    /\ pc = "merge"
    /\ counts' = _merge_dicts(element_counts_list)
    /\ pc' = "merged"
    /\ UNCHANGED <<cfg, dset, tags_to_augment, ti, collect_concurrent_calls,
                   handed, countFile, fileExists, outfile, element_counts_list>>
    /\ UNCHANGED schedVars
    /\ UNCHANGED epmcVars

MergeNext ==
    \/ CountShards
    \/ MergeShards

MergeSpec == MergeInit /\ [][MergeNext]_vars

\* --------------------------------------------------------------- download_epmc
\* download_epmc(download_path, year) as its tests describe it: the months of
\* the year are visited in order; a month whose final file <MM>.jsonl exists is
\* skipped; for any other month the results of the API are written to
\* <MM>.jsonl.tmp, which is then renamed to <MM>.jsonl.
\* A line of a month file is the text json.dumps gives, in pieces.
DictVal(pairs) == [type |-> "dict", v |-> pairs]

\* json.dumps of a string or of a dict of strings
JsonDumps(x) ==
    IF x.type = "str"
    THEN <<"\"", x.v, "\"">>
    ELSE <<"{">>
         \o Flatten([k \in DOMAIN x.v |->
                        (IF k > 1 THEN <<", ">> ELSE <<>>)
                        \o <<"\"", x.v[k][1], "\"", ": ", "\"", x.v[k][2], "\"">>])
         \o <<"}">>

\* create_month_data: one line, the object {"item": "fake"}
create_month_data == File(<<JsonDumps(DictVal(<< <<"item", "fake">> >>))>>)

\* what yield_results returns, the same for every month of a run
YieldResults ==
    {<<StrVal("item")>>,
     <<DictVal(<< <<"item", "not fake">> >>)>>,
     <<DictVal(<< <<"item", "not fake">> >>), StrVal("item")>>}

\* the files a run can find below <download_path>/<year>: at most
\* MaxPreexisting months have a final file, a temporary file or both
MonthFiles ==
    UNION {{[final |-> [m \in 1..Months |-> IF m \in S /\ k[m] \in {"final", "both"}
                                             THEN create_month_data ELSE Absent],
             tmp |-> [m \in 1..Months |-> IF m \in S /\ k[m] \in {"tmp", "both"}
                                           THEN create_month_data ELSE Absent]] :
               k \in [S -> {"final", "tmp", "both"}]} :
           S \in {T \in SUBSET (1..Months) : Cardinality(T) <= MaxPreexisting}}

DlInit ==
    /\ \E files \in MonthFiles : \E results \in YieldResults :
          dl = [pc |-> "month", month |-> 1, final |-> files.final, tmp |-> files.tmp,
                final0 |-> files.final, tmp0 |-> files.tmp, results |-> results]
    /\ cfg = None
    /\ pc = "download"
    /\ dset = <<>>
    /\ counts = <<>>
    /\ tags_to_augment = <<>>
    /\ ti = 1
    /\ collect_concurrent_calls = <<>>
    /\ handed = <<>>
    /\ countFile = Absent
    /\ fileExists = FALSE
    /\ outfile = <<>>
    /\ plan = <<>>
    /\ mr = MrIdle
    /\ calls = <<>>
    /\ result = None
    /\ okParsed = 0
    /\ element_counts_list = <<>>

\* mutant: no month counts as downloaded
MonthNeverDone(final, m) == FALSE

\* os.path.exists(<MM>.jsonl)
MonthDone(final, m) == final[m].exists

\* mutant: the temporary file is opened for append and keeps what it held
TmpAppended(old, results) ==
    File(old.lines \o [k \in DOMAIN results |-> JsonDumps(results[k])])

\* the temporary file is opened for writing: one line per result
TmpWritten(old, results) == File([k \in DOMAIN results |-> JsonDumps(results[k])])

SkipMonth ==
    /\ dl.pc = "month"
    /\ dl.month <= Months
    /\ MonthDone(dl.final, dl.month)
    /\ dl' = [dl EXCEPT !.month = dl.month + 1]
    /\ UNCHANGED <<cfg, dset, fileExists, outfile>>
    /\ UNCHANGED driverVars
    /\ UNCHANGED schedVars

FetchMonth ==
    /\ dl.pc = "month"
    /\ dl.month <= Months
    /\ ~MonthDone(dl.final, dl.month)
    /\ dl' = [dl EXCEPT !.pc = "rename",
                        !.tmp[dl.month] = TmpWritten(dl.tmp[dl.month], dl.results)]
    /\ UNCHANGED <<cfg, dset, fileExists, outfile>>
    /\ UNCHANGED driverVars
    /\ UNCHANGED schedVars

RenameMonth ==
    /\ dl.pc = "rename"
    /\ dl' = [dl EXCEPT !.pc = "month", !.month = dl.month + 1,
                        !.final[dl.month] = dl.tmp[dl.month],
                        !.tmp[dl.month] = Absent]
    /\ UNCHANGED <<cfg, dset, fileExists, outfile>>
    /\ UNCHANGED driverVars
    /\ UNCHANGED schedVars

DownloadReturns ==
    /\ dl.pc = "month"
    /\ dl.month > Months
    /\ dl' = [dl EXCEPT !.pc = "returned"]
    /\ UNCHANGED <<cfg, dset, fileExists, outfile>>
    /\ UNCHANGED driverVars
    /\ UNCHANGED schedVars

DlNext ==
    \/ SkipMonth
    \/ FetchMonth
    \/ RenameMonth
    \/ DownloadReturns

DlSpec == DlInit /\ [][DlNext]_vars

\* ================================================================== claims
\* the records the run itself appended to save_to_path
RunRecords == SelectSeq(outfile, LAMBDA r : r # OldRecord)

\* the number of records of the dataset that carry t
AvailableSeeds(t) == Cardinality({k \in DOMAIN dset : Carries(dset[k], t)})

WellFormedIn(response) == {k \in DOMAIN response : response[k] = "well_formed"}

\* C1: the number of outbound calls dispatched and not yet completed never
\* exceeds concurrent_calls.
C1_ConcurrencyCeiling == Cardinality(InFlight) <= cfg.concurrent_calls

\* the labels whose count is below min_examples
DeficitLabels == {L \in Keys(counts) : Get(counts, L) < cfg.min_examples}

\* C2: a plan handed to the scheduler has, for every label with count c below
\* min_examples, an entry identified by the label with deficit min_examples - c,
\* and no entry for any other label.
C2_PlanCoversDeficitLabels ==
    \A h \in DOMAIN handed :
        /\ \A L \in DeficitLabels :
              \E k \in DOMAIN handed[h] :
                  /\ handed[h][k][1].type = "str"
                  /\ handed[h][k][1].v = L
                  /\ handed[h][k][2] = cfg.min_examples - Get(counts, L)
        /\ \A k \in DOMAIN handed[h] :
              /\ handed[h][k][1].type = "str"
              /\ handed[h][k][1].v \in DeficitLabels

\* C3: when the run is over, every request the driver built has been passed to
\* AugmentOpenAI.generate exactly once.
C3_EachRequestHandedOnce ==
    pc \in {"done", "error"} =>
        \A k \in DOMAIN collect_concurrent_calls :
            Cardinality({h \in DOMAIN handed : k \in DOMAIN handed[h]}) = 1

\* C4: for the request _make_requests is working on, the number of seeds used
\* is the smaller of requiredCount and availableSeeds, and the replication
\* factor is the least k with k * numberOfSeedsUsed >= requiredCount.
C4_ReplicationFactor ==
    mr.pc = "inner" =>
        LET t == plan[mr.num][1]
            requiredCount == plan[mr.num][2]
            availableSeeds == AvailableSeeds(t)
            numberOfSeedsUsed == mr.existing_examples
            replicationFactor == mr.n_per_example
        IN /\ numberOfSeedsUsed <= requiredCount
           /\ numberOfSeedsUsed <= availableSeeds
           /\ numberOfSeedsUsed \in {requiredCount, availableSeeds}
           /\ replicationFactor * numberOfSeedsUsed >= requiredCount
           /\ (replicationFactor - 1) * numberOfSeedsUsed < requiredCount

\* a request whose deficit is not a multiple of the seeds used
C4_Witness ==
    /\ mr.pc = "inner"
    /\ mr.existing_examples > 1
    /\ mr.required_examples % mr.existing_examples # 0
    /\ mr.n_per_example > 1

\* the request at position num of the plan has been worked off
RequestDone(num) ==
    \/ mr.pc = "returned"
    \/ mr.pc \in {"outer", "inner", "ZeroDivisionError"} /\ num < mr.num

\* C5: a request that has been worked off has issued exactly
\* min(requiredCount, availableSeeds) calls, each for a different record that
\* carries the label, each asking for the replication factor as n and each with
\* the label in place of {TOPIC} in its prompt; the request for "Malaria" with
\* deficit 12 and 3 seeds has issued 3 calls with n = 4.
C5_OneCallPerSeed ==
    \A num \in DOMAIN plan :
        RequestDone(num) =>
            LET t == plan[num][1]
                requiredCount == plan[num][2]
                used == Min(requiredCount, AvailableSeeds(t))
                cs == {c \in DOMAIN calls : calls[c].req = num}
            IN /\ Cardinality(cs) = used
               /\ \A c, d \in cs : c # d => calls[c].seed # calls[d].seed
               /\ \A c \in cs :
                     /\ Carries(dset[calls[c].seed], t)
                     /\ calls[c].metadata.existing_example.v = dset[calls[c].seed].abstractText
                     /\ calls[c].data.n * used >= requiredCount
                     /\ (calls[c].data.n - 1) * used < requiredCount
                     /\ LET content == calls[c].data.messages[1].content IN
                        /\ \E k \in DOMAIN content : content[k] = t.v
                        /\ \A k \in DOMAIN content : content[k] # "{TOPIC}"
               /\ (t = StrVal("Malaria") /\ requiredCount = 12 /\ AvailableSeeds(t) = 3) =>
                     /\ Cardinality(cs) = 3
                     /\ \A c \in cs : calls[c].data.n = 4

\* the request for "Malaria" has been worked off with 3 calls of n = 4
C5_Witness ==
    /\ plan = << <<StrVal("Malaria"), 12>> >>
    /\ mr.pc = "returned"
    /\ Len(calls) = 3
    /\ \A c \in DOMAIN calls : calls[c].data.n = 4

\* the call c was in flight and its completion handler has run in this step
Handled(c) ==
    /\ calls[c].status = "in_flight"
    /\ calls'[c].status # "in_flight"

\* C7: the completion handler of a call the backend reports as failed appends
\* nothing to the output file and does not create it, the call ends failed, no
\* call is added for it and a failed call stays failed.
C7_FailedCallWritesNothing ==
    [][\A c \in DOMAIN calls :
          /\ (Handled(c) /\ result'.failed) =>
                /\ outfile' = outfile
                /\ fileExists' = fileExists
                /\ calls'[c].status = "completed_failed"
                /\ Len(calls') = Len(calls)
          /\ calls[c].status = "completed_failed" =>
                calls'[c].status = "completed_failed"]_vars

\* a call has failed and the output file is still absent
C7_Witness ==
    /\ ~fileExists
    /\ \E c \in DOMAIN calls : calls[c].status = "completed_failed"

C9_FailureDoesNotHaltSiblings ==
    (result # None /\ ~result.failed) =>
        ((\E d \in DOMAIN calls : d # result.call /\ calls[d].status = "completed_failed")
            => /\ calls[result.call].status = "completed_ok"
               /\ Len(RunRecords) >= Cardinality(WellFormedIn(result.response)))

\* C10: the output file holds one complete record for each successful
\* outcome handled so far, so a crash after the k-th leaves exactly k records.
C10_FlushedRecordsSurviveCrash == Len(RunRecords) = okParsed

\* C12: when the backend has answered every call and the scheduler has no step
\* left to take, generate has returned; it returns only when no call is queued
\* or in flight.
C12_GenerateReturnsWhenAnswered ==
    /\ (~ENABLED SchedNext) => pc = "returned"
    /\ pc = "returned" => \A c \in DOMAIN calls : Terminal(c)

\* the labels of a corpus and the occurrences of a label in it, counted directly
LabelsOf(ds) == UNION {{ds[k].meshMajor[j] : j \in DOMAIN ds[k].meshMajor} : k \in DOMAIN ds}
Occurrences(ds, L) ==
    Cardinality(UNION {{<<k, j>> : j \in {i \in DOMAIN ds[k].meshMajor : ds[k].meshMajor[i] = L}} :
                       k \in DOMAIN ds})

\* C13: whatever the shards of the corpus and their order, the merged per-shard
\* counts map every label of the corpus to the number of its occurrences in the
\* corpus and hold no other key.
C13_MergeEqualsDirectCount ==
    pc = "merged" =>
        /\ Keys(counts) = LabelsOf(dset)
        /\ Len(counts) = Cardinality(Keys(counts))
        /\ \A L \in Keys(counts) : Get(counts, L) = Occurrences(dset, L)

\* a label counted in two shards, one of them holding it more than once
C13_Witness ==
    /\ pc = "merged"
    /\ \E s1, s2 \in DOMAIN element_counts_list : \E L \in Keys(counts) :
          /\ s1 # s2
          /\ L \in Keys(element_counts_list[s1])
          /\ L \in Keys(element_counts_list[s2])
          /\ Get(element_counts_list[s1], L) > 1

\* the configuration errors of a run
ConfigError ==
    \/ ~cfg.api_key
    \/ ~SupportedModel(cfg.model_key)
    \/ ~EndsWith(cfg.data_path, Jsonl)

\* C14: a run with a configuration error (no OPENAI_API_KEY, a model that is
\* not supported, a data path that does not end in jsonl) never gets past the
\* construction of the engine: the corpus is not loaded, no file is written and
\* no plan is handed to the scheduler.
C14_ConfigErrorsAreFatal ==
    ConfigError =>
        /\ pc \in {"cli", "start", "error", "exit"}
        /\ dset = <<>>
        /\ countFile = Absent
        /\ handed = <<>>
        /\ calls = <<>>

\* C15: a month whose final file exists when download_epmc starts keeps the
\* contents of that file through the run and after it, whatever the results
\* of the API are.
C15_ExistingMonthIsSkipped ==
    \A m \in 1..Months : dl.final0[m].exists => dl.final[m] = dl.final0[m]

\* download_epmc has returned from a year with a month that was there before,
\* and has written other contents for another month
C15_Witness ==
    /\ dl.pc = "returned"
    /\ \E m, n \in 1..Months :
          /\ dl.final0[m].exists
          /\ dl.final[n].exists
          /\ dl.final[n] # dl.final0[m]

\* C16: when download_epmc has returned, every month has its final file, and a
\* month that started with a temporary file and no final file has been
\* downloaded: its final file holds one line per result of the API and no line
\* of the old temporary file, and the temporary file is gone.
C16_AllMonthsDownloaded ==
    dl.pc = "returned" =>
        \A m \in 1..Months :
            /\ dl.final[m].exists
            /\ (~dl.final0[m].exists /\ dl.tmp0[m].exists) =>
                  /\ dl.final[m].lines = [k \in DOMAIN dl.results |-> JsonDumps(dl.results[k])]
                  /\ \A k \in DOMAIN dl.final[m].lines : \A j \in DOMAIN dl.tmp0[m].lines :
                        dl.final[m].lines[k] # dl.tmp0[m].lines[j]
                  /\ ~dl.tmp[m].exists

\* download_epmc has returned from a year where a month had only a temporary file
C16_Witness ==
    /\ dl.pc = "returned"
    /\ \E m \in 1..Months :
          /\ ~dl.final0[m].exists
          /\ dl.tmp0[m] = create_month_data
          /\ dl.final[m].exists

\* the states of a call the backend has answered: COMPLETED_FAILED is
\* "completed_failed"; COMPLETED_OK is an answer that was not a failure,
\* whether its handler then returned ("completed_ok") or raised ("handler_raised")
CompletedStates == {"completed_ok", "completed_failed", "handler_raised"}

\* C17: a call goes from queued to in flight and from in flight to completed
\* (failed exactly when the backend reported a failure) and takes no other
\* step: it is never queued or dispatched again, its handler runs once, its
\* completed state stays, and no call is withdrawn or changed once made.
C17_CallStateMachine ==
    [][/\ Len(calls') >= Len(calls)
       /\ \A c \in DOMAIN calls :
             /\ calls'[c].data = calls[c].data
             /\ calls'[c].metadata = calls[c].metadata
             /\ calls[c].status = "queued" => calls'[c].status \in {"queued", "in_flight"}
             /\ calls[c].status = "in_flight" =>
                   calls'[c].status \in {"in_flight"} \cup CompletedStates
             /\ calls[c].status \in CompletedStates => calls'[c].status = calls[c].status
             /\ Handled(c) =>
                   /\ result'.call = c
                   /\ result'.failed <=> calls'[c].status = "completed_failed"
       /\ \A c \in (DOMAIN calls') \ (DOMAIN calls) : calls'[c].status = "queued"]_vars

\* every request has been made; one call has failed and another has been
\* answered and handled
C17_Witness ==
    /\ \E c, d \in DOMAIN calls :
          /\ calls[c].status = "completed_failed"
          /\ calls[d].status = "completed_ok"
    /\ mr.pc = "returned"

\* C19: the handler of an answered call appends one record for each choice of
\* the response that decodes to a {title, abstract} record, and nothing for
\* the other choices, wherever they stand in the response.
C19_EachWellFormedChoiceWritten ==
    [][\A c \in DOMAIN calls :
          (Handled(c) /\ ~result'.failed) =>
              /\ Len(outfile') = Len(outfile) + Cardinality(WellFormedIn(result'.response))
              /\ SubSeq(outfile', 1, Len(outfile)) = outfile]_vars

\* the corpus after the year filters, the one the labels are counted on
CountedCorpus == FilterYears(cfg.data, cfg.train_years, cfg.test_years)

\* C20: once augment has gone on to select the labels, has handed a plan to
\* the scheduler, has a call made or a record appended, the file
\* <save_to_path>.count exists and holds the whole table: every label of the
\* counted corpus with the number of its occurrences.
C20_CountFileBeforeGeneration ==
    (pc \in {"select", "loop", "done"} \/ handed # <<>> \/ calls # <<>> \/ RunRecords # <<>>) =>
        /\ countFile.exists
        /\ Keys(countFile.lines) = LabelsOf(CountedCorpus)
        /\ \A L \in Keys(countFile.lines) :
              Get(countFile.lines, L) = Occurrences(CountedCorpus, L)

\* a plan is handed to the scheduler and the report holds a label that is not
\* in the plan
C20_Witness ==
    /\ handed # <<>>
    /\ countFile.exists
    /\ Len(countFile.lines) > Len(handed[1])

\* the labels picked for augmentation
SelectedLabels == {tags_to_augment[k] : k \in DOMAIN tags_to_augment}

\* C21 as stated: the table that decides the selection counts every record of
\* the corpus as loaded, the records the year filters remove included.
C21_CountsOverCorpusAsLoaded ==
    pc \in {"report", "select", "loop", "done"} =>
        \A L \in LabelsOf(cfg.data) :
            /\ L \in Keys(counts)
            /\ Get(counts, L) = Occurrences(cfg.data, L)

\* the records of the corpus as loaded whose year is an inclusion year (if any
\* is given) and no exclusion year
KeptRecords ==
    SelectSeq(cfg.data,
              LAMBDA x : /\ (cfg.train_years = {} \/ x.year \in cfg.train_years)
                         /\ (cfg.test_years = {} \/ x.year \notin cfg.test_years))

\* C21 amended: the year filters are applied before the count, so the table
\* counts only the records the filters keep, and the labels selected are the
\* labels of those records with fewer than min_examples occurrences in them.
C21_CountsAfterYearFilter ==
    /\ pc \in {"report", "select", "loop", "done"} =>
          /\ Keys(counts) = LabelsOf(KeptRecords)
          /\ \A L \in Keys(counts) : Get(counts, L) = Occurrences(KeptRecords, L)
    /\ pc \in {"loop", "done"} =>
          SelectedLabels =
              {L \in LabelsOf(KeptRecords) : Occurrences(KeptRecords, L) < cfg.min_examples}

\* a label is selected that has min_examples occurrences in the corpus as
\* loaded: a year filter has removed some of them
C21_Witness ==
    /\ pc = "loop"
    /\ \E L \in SelectedLabels :
          /\ Occurrences(cfg.data, L) >= cfg.min_examples
          /\ Occurrences(KeptRecords, L) < cfg.min_examples

\* C23: in every step the output file keeps all the records it holds, the
\* records from before the run included, each unchanged at its position; what
\* a step adds comes after them.
C23_AppendOnly ==
    [][/\ Len(outfile') >= Len(outfile)
       /\ SubSeq(outfile', 1, Len(outfile)) = outfile]_vars

\* the handler of an answered call has opened a file that held a record
\* before the run, and the record is still there
C23_Witness ==
    /\ result # None
    /\ ~result.failed
    /\ calls[result.call].status \in {"completed_ok", "handler_raised"}
    /\ Len(outfile) > 0
    /\ outfile[1] = OldRecord

\* C24: every request of a plan the driver passes on for _make_requests asks
\* for at least one example and has at least one record of the dataset passed
\* with it that carries its label, so that line 90 does not divide by zero.
C24_DriverRequestsHaveSeeds ==
    \A h \in DOMAIN handed : \A k \in DOMAIN handed[h] :
        /\ handed[h][k][2] >= 1
        /\ AvailableSeeds(handed[h][k][1]) >= 1

\* the calls made for the request at position num and the generations they ask for
CallsFor(num) == {c \in DOMAIN calls : calls[c].req = num}
RECURSIVE SumOfN(_)
SumOfN(cs) ==
    IF cs = {} THEN 0
    ELSE LET c == CHOOSE c \in cs : TRUE IN calls[c].data.n + SumOfN(cs \ {c})

\* the records of the run in the output file that were generated for label t
WrittenFor(t) == {k \in DOMAIN outfile : outfile[k] # OldRecord /\ outfile[k].featured_tag = t}

\* C25: for a request that has been worked off, the generations its calls ask
\* for in all are at least requiredCount and less than requiredCount plus the
\* number of its calls (one per seed used), and the file holds no more records
\* for its label than that.
C25_OvershootBelowSeedsUsed ==
    \A num \in DOMAIN plan :
        RequestDone(num) =>
            LET requiredCount == plan[num][2]
                numberOfSeedsUsed == Cardinality(CallsFor(num))
                total == SumOfN(CallsFor(num))
            IN /\ \A c \in CallsFor(num) : calls[c].data.n * numberOfSeedsUsed = total
               /\ requiredCount <= total
               /\ total < requiredCount + numberOfSeedsUsed
               /\ Cardinality(WrittenFor(plan[num][1])) <= total

\* a request asks for more generations than required and the backend has
\* answered each of its calls with as many choices as asked for
C25_Witness ==
    \E num \in DOMAIN plan :
        /\ RequestDone(num)
        /\ SumOfN(CallsFor(num)) > plan[num][2]
        /\ \A c \in CallsFor(num) : calls[c].status \in {"completed_ok", "handler_raised"}
        /\ result # None
        /\ ~result.failed
        /\ Len(result.response) = calls[result.call].data.n
        /\ calls[result.call].req = num

====
